---------------------------- MODULE Spec2Model ----------------------------
(***************************************************************************)
(* A model of imdb_scraper.py: the identifier resolver, the show-metadata  *)
(* recoverer, the season enumerator, the episode extractor (JSON-LD path   *)
(* and CSS fallback), the analytics engine and the sequential run of       *)
(* scrape_show / main.                                                     *)
(*                                                                         *)
(* Python values are tagged records: None, a missing dict key (Absent),    *)
(* numbers and strings.  Ratings are fixed-point: a float r is modelled by *)
(* the integer 10*r (8.5 is 85), an average by the fraction num/den.       *)
(***************************************************************************)
EXTENDS Integers, Sequences, FiniteSets, TLC

VARIABLES
    pc,            \* where main / scrape_show stands
    url,           \* args.url, a sequence of characters
    imdb_id,       \* scrape_show's imdb_id
    show_info,     \* the dict get_show_info returned
    season_nums,   \* the list get_seasons returned
    seasons_data,  \* scrape_show's seasons_data
    soup,          \* the document the last extractor call parsed
    episodes,      \* the list the last get_episode_ratings call returned
    tier,          \* which extraction path produced `episodes`
    analytics,     \* the dict calculate_analytics returned
    data,          \* the bundle scrape_show returned
    artifact,      \* whether generate_html has written the output file
    fetches        \* the requests.get calls issued so far, in order

vars == <<pc, url, imdb_id, show_info, season_nums, seasons_data, soup,
          episodes, tier, analytics, data, artifact, fetches>>

----------------------------------------------------------------------------
(* Bounds of the model *)

MaxUrlLen == 3      \* characters of args.url
MaxSeasons == 2     \* the largest season count or season link a page names
MaxLinks == 2       \* season links on the listing page
MaxEpisodes == 2    \* entries of a JSON-LD episode list
MaxItems == 2       \* episode containers in the markup
MaxRated == 2       \* episodes of a season given to calculate_analytics

----------------------------------------------------------------------------
(* Python values *)

None == [k |-> "none"]
Absent == [k |-> "absent"]
PyInt(n) == [k |-> "int", v |-> n]
PyStr(s) == [k |-> "str", v |-> s]

\* Python truthiness of a value a dict lookup produced
Truthy(x) ==
    CASE x.k = "int" -> x.v # 0
      [] x.k = "str" -> x.v # ""
      [] x.k = "dict" -> TRUE
      [] OTHER -> FALSE

\* list(range(1, n + 1))
Range1(n) == [i \in 1..n |-> i]

\* sorted(seasons) for a set of integers
RECURSIVE SortedSet(_)
SortedSet(S) ==
    IF S = {} THEN <<>>
    ELSE LET m == CHOOSE x \in S : \A y \in S : x <= y
         IN <<m>> \o SortedSet(S \ {m})

----------------------------------------------------------------------------
(* get_imdb_id: re.search(r"tt\d+", url) *)

Digits == {"0", "7"}
Chars == {"t", "/"} \cup Digits

\* the end of the longest run of digits starting at position i
RECURSIVE DigitsEnd(_, _)
DigitsEnd(s, i) ==
    IF i <= Len(s) /\ s[i] \in Digits THEN DigitsEnd(s, i + 1) ELSE i - 1

\* the positions where "tt" followed by a digit starts
MatchStarts(s) ==
    {i \in 1..Len(s) : /\ i + 2 <= Len(s)
                       /\ s[i] = "t" /\ s[i + 1] = "t"
                       /\ s[i + 2] \in Digits}

\* None when nothing matches (the ValueError), else the leftmost match
get_imdb_id(s) ==
    IF MatchStarts(s) = {} THEN None
    ELSE LET i == CHOOSE j \in MatchStarts(s) : \A m \in MatchStarts(s) : j <= m
         IN [k |-> "str", v |-> SubSeq(s, i, DigitsEnd(s, i + 2))]

----------------------------------------------------------------------------
(* extract_json_ld: the document's json_ld field is None when the script   *)
(* tag is missing, empty or fails to parse, else the parsed dict           *)

extract_json_ld(doc) == doc.json_ld

\* `if json_ld:` is false for None and for the empty dict
JsonLdTruthy(json_ld) == json_ld.k = "dict" /\ ~json_ld.empty

----------------------------------------------------------------------------
(* get_show_info, after its fetch returned the document `doc` *)

\* soup.select_one('h1[data-testid="hero__pageTitle"] span'), then "h1"
TitleElem(doc) == IF doc.hero # Absent THEN doc.hero ELSE doc.h1

ShowName(doc) ==
    LET json_ld == extract_json_ld(doc)
        name == IF JsonLdTruthy(json_ld) /\ json_ld.name # Absent
                THEN json_ld.name ELSE PyStr("Unknown Show")
    IN IF name = PyStr("Unknown Show") /\ TitleElem(doc) # Absent
       THEN TitleElem(doc) ELSE name

ShowSeasonCount(doc) ==
    LET json_ld == extract_json_ld(doc)
    IN IF JsonLdTruthy(json_ld) /\ json_ld.numberOfSeasons # Absent
       THEN json_ld.numberOfSeasons ELSE None

\* img.ipc-image[srcset], then the hero-media poster image
PosterUrl(doc) ==
    LET poster_elem == IF doc.ipc_image # Absent THEN doc.ipc_image
                       ELSE doc.hero_poster
    IN IF poster_elem # Absent THEN poster_elem ELSE None

get_show_info(doc) ==
    [name |-> ShowName(doc),
     poster_url |-> PosterUrl(doc),
     number_of_seasons |-> ShowSeasonCount(doc)]

----------------------------------------------------------------------------
(* get_seasons *)

\* mutants of the guard: the `> 0` test dropped; the known count ignored
KnownCountNotNone(known_season_count) == known_season_count.k = "int"

KnownCountIgnored(known_season_count) == FALSE

\* `known_season_count is not None and known_season_count > 0`
KnownCountUsable(known_season_count) ==
    known_season_count.k = "int" /\ known_season_count.v > 0

\* the JSON-LD tier on the episodes page: the count it finds, else None
ListingSeasonCount(json_ld) ==
    IF ~JsonLdTruthy(json_ld) THEN None
    ELSE IF json_ld.partOfSeries # Absent
            /\ json_ld.partOfSeries.numberOfSeasons # Absent
         THEN json_ld.partOfSeries.numberOfSeasons
    ELSE IF json_ld.numberOfSeasons # Absent THEN json_ld.numberOfSeasons
    ELSE None

\* the set built from re.search(r'season=(\d+)', href) over the links
LinkSeasons(season_links) ==
    {season_links[i].v : i \in {j \in 1..Len(season_links) :
                                     season_links[j].k = "int"}}

\* the part of get_seasons that reads the fetched listing document
SeasonsFromListing(doc) ==
    LET count == ListingSeasonCount(extract_json_ld(doc))
    IN IF count # None THEN Range1(count.v)
       ELSE IF LinkSeasons(doc.season_links) # {}
            THEN SortedSet(LinkSeasons(doc.season_links))
       ELSE <<1>>

----------------------------------------------------------------------------
(* get_episode_ratings: the JSON-LD path *)

\* f"{x}" of a value
Format(x) ==
    CASE x.k = "int" -> ToString(x.v)
      [] x.k = "str" -> x.v
      [] OTHER -> "None"

\* float(rating_val) inside try/except (ValueError, TypeError): a number or a
\* numeric string converts, anything else leaves rating = None
ToFloat(rating_val) ==
    IF rating_val.k \in {"num", "numstr"}
    THEN [k |-> "float", v |-> rating_val.v]
    ELSE None

\* the rating read from ep_data's aggregateRating
JsonLdRating(ep_data) ==
    LET agg_rating == ep_data.aggregateRating
    IN IF agg_rating.k = "dict" /\ ~agg_rating.empty
       THEN IF agg_rating.ratingValue \notin {Absent, None}
            THEN ToFloat(agg_rating.ratingValue)
            ELSE None
       ELSE None

\* ep_data.get("episodeNumber", len(episodes) + 1)
JsonLdEpisodeNum(ep_data, len) ==
    IF ep_data.episodeNumber = Absent THEN PyInt(len + 1)
    ELSE ep_data.episodeNumber

\* ep_data.get("name", f"Episode {episode_num}")
JsonLdTitle(ep_data, len) ==
    IF ep_data.name = Absent
    THEN PyStr("Episode " \o Format(JsonLdEpisodeNum(ep_data, len)))
    ELSE ep_data.name

\* int(episode_num) raises ValueError on a string that is no number
IntRaises(episode_num) == Truthy(episode_num) /\ episode_num.k = "str"

\* the dict appended for ep_data when `len` episodes were appended before
JsonLdRecord(ep_data, len) ==
    LET episode_num == JsonLdEpisodeNum(ep_data, len)
    IN [episode_num |-> IF Truthy(episode_num) THEN episode_num.v ELSE len + 1,
        title |-> JsonLdTitle(ep_data, len),
        rating |-> JsonLdRating(ep_data)]

\* the loop over episode_list: the first n entries
RECURSIVE JsonLdLoop(_, _)
JsonLdLoop(episode_list, n) ==
    IF n = 0 THEN [raised |-> FALSE, episodes |-> <<>>]
    ELSE LET before == JsonLdLoop(episode_list, n - 1)
             ep_data == episode_list[n]
         IN IF before.raised
               \/ IntRaises(JsonLdEpisodeNum(ep_data, Len(before.episodes)))
            THEN [raised |-> TRUE, episodes |-> <<>>]
            ELSE [raised |-> FALSE,
                  episodes |-> Append(before.episodes,
                                      JsonLdRecord(ep_data, Len(before.episodes)))]

\* mutant: the list returned in payload order
Unsorted(eps) == eps

\* sorted(episodes, key=lambda x: x["episode_num"]): stable
RECURSIVE SortedByEpisodeNum(_)
SortedByEpisodeNum(eps) ==
    IF eps = <<>> THEN <<>>
    ELSE LET last == eps[Len(eps)]
             rest == SortedByEpisodeNum(SubSeq(eps, 1, Len(eps) - 1))
             after == {i \in 1..Len(rest) : rest[i].episode_num > last.episode_num}
             at == IF after = {} THEN Len(rest) + 1
                   ELSE CHOOSE i \in after : \A j \in after : i <= j
         IN SubSeq(rest, 1, at - 1) \o <<last>> \o SubSeq(rest, at, Len(rest))

\* `isinstance(episode_list, list) and episode_list` under `if json_ld:`
HasEpisodeList(json_ld) ==
    /\ JsonLdTruthy(json_ld)
    /\ json_ld.episode.k = "list"
    /\ json_ld.episode.v # <<>>

----------------------------------------------------------------------------
(* _get_episode_ratings_css_fallback *)

\* the three container selectors, the first that matches anything
EpisodeItems(doc) ==
    IF doc.articles # <<>> THEN doc.articles
    ELSE IF doc.list_items # <<>> THEN doc.list_items
    ELSE doc.container_divs

\* `a or b or c or d` over the results of four select_one calls: the first
\* element found (a Tag is true whatever its text), Absent when none is
FirstFound(elems) ==
    LET found == {i \in 1..Len(elems) : elems[i] # Absent}
    IN IF found = {} THEN Absent
       ELSE elems[CHOOSE i \in found : \A j \in found : i <= j]

(* The text of a div.ipc-title__text element is modelled by its parts:     *)
(* season s and episode e of a leading "S<s>.E<e>" marker (0: that part is *)
(* missing), whether the separator dot follows, and the remaining text.    *)
\* the separator dot of "S1.E1 . Title", written in ASCII
Sep == "*"

TextOf(div) ==
    (IF div.s > 0 THEN "S" \o ToString(div.s) ELSE "")
    \o (IF div.s > 0 /\ div.e > 0 THEN "." ELSE "")
    \o (IF div.e > 0 THEN "E" \o ToString(div.e) ELSE "")
    \o (IF div.sep THEN Sep ELSE "")
    \o div.rest

\* re.search(r'[ES]\d+\.?[ES]?\d*\s*[dot]\s*(.+)', title_text), [dot] the two separator dots: group 1, or
\* the whole text when the pattern does not match
StripPrefix(div) ==
    IF (div.s > 0 \/ div.e > 0) /\ div.sep /\ div.rest # ""
    THEN div.rest
    ELSE TextOf(div)

\* the title of one container, None when nothing yields a non-empty text
ItemTitle(item) ==
    LET title_elem == FirstFound(item.title_links)
        title == IF title_elem # Absent THEN title_elem ELSE None
    IN IF Truthy(title) THEN title
       ELSE IF item.title_div # Absent
            THEN PyStr(StripPrefix(item.title_div))
            ELSE title

\* re.search(r'(\d+\.?\d*)', rating_text): the first number in the text,
\* whose tokens are numbers and other text
FirstNumber(rating_text) ==
    LET nums == {i \in 1..Len(rating_text) : rating_text[i].k = "num"}
    IN IF nums = {} THEN None
       ELSE rating_text[CHOOSE i \in nums : \A j \in nums : i <= j]

ItemRating(item) ==
    LET rating_elem == FirstFound(item.rating_elems)
    IN IF rating_elem # Absent
       THEN LET match == FirstNumber(rating_elem.text)
            IN IF match # None THEN ToFloat(match) ELSE None
       ELSE None

\* re.search(r'E(\d+)', ep_num_elem.get_text()) overriding idx
ItemEpisodeNum(item, idx) ==
    IF item.title_div # Absent /\ item.title_div.e > 0
    THEN item.title_div.e
    ELSE idx

\* the dict appended for the idx-th container
FallbackRecord(item, idx) ==
    [episode_num |-> ItemEpisodeNum(item, idx),
     title |-> IF Truthy(ItemTitle(item)) THEN ItemTitle(item)
               ELSE PyStr("Episode " \o ToString(idx)),
     rating |-> ItemRating(item)]

css_fallback(doc) ==
    [idx \in 1..Len(EpisodeItems(doc)) |->
        FallbackRecord(EpisodeItems(doc)[idx], idx)]

----------------------------------------------------------------------------
(* get_episode_ratings, after its fetch returned the document `doc`:       *)
(* the list returned, the path that produced it, and whether int() raised  *)

\* mutant: the markup scan wins whenever it finds a container
MarkupFirst(doc) ==
    LET json_ld == extract_json_ld(doc)
        primary == IF HasEpisodeList(json_ld)
                   THEN JsonLdLoop(json_ld.episode.v, Len(json_ld.episode.v))
                   ELSE [raised |-> FALSE, episodes |-> <<>>]
    IN IF css_fallback(doc) # <<>> \/ primary.episodes = <<>>
       THEN [raised |-> FALSE, tier |-> "css_fallback",
             episodes |-> css_fallback(doc)]
       ELSE [raised |-> primary.raised, tier |-> "json_ld",
             episodes |-> SortedByEpisodeNum(primary.episodes)]

get_episode_ratings(doc) ==
    LET json_ld == extract_json_ld(doc)
        primary == IF HasEpisodeList(json_ld)
                   THEN JsonLdLoop(json_ld.episode.v, Len(json_ld.episode.v))
                   ELSE [raised |-> FALSE, episodes |-> <<>>]
    IN IF primary.raised
       THEN [raised |-> TRUE, tier |-> "json_ld", episodes |-> <<>>]
       ELSE IF primary.episodes # <<>>
            THEN [raised |-> FALSE, tier |-> "json_ld",
                  episodes |-> SortedByEpisodeNum(primary.episodes)]
            ELSE [raised |-> FALSE, tier |-> "css_fallback",
                  episodes |-> css_fallback(doc)]

----------------------------------------------------------------------------
(* calculate_analytics *)

RECURSIVE SumRatings(_)
SumRatings(eps) ==
    IF eps = <<>> THEN 0 ELSE eps[1].rating + SumRatings(Tail(eps))

\* the entries of one season appended to all_episodes: its rated episodes
RECURSIVE RatedOf(_, _)
RatedOf(season, n) ==
    IF n = 0 THEN <<>>
    ELSE LET ep == season.episodes[n]
         IN IF ep.rating # None
            THEN Append(RatedOf(season, n - 1),
                        [season |-> season.season_num,
                         episode |-> ep.episode_num,
                         title |-> ep.title,
                         rating |-> ep.rating.v])
            ELSE RatedOf(season, n - 1)

SeasonRated(season) == RatedOf(season, Len(season.episodes))

\* all_episodes after the first n seasons
RECURSIVE AllEpisodes(_, _)
AllEpisodes(sd, n) ==
    IF n = 0 THEN <<>>
    ELSE AllEpisodes(sd, n - 1) \o SeasonRated(sd[n])

\* mutant: episode_count taken from every episode of the season
RECURSIVE CountingUnrated(_, _)
CountingUnrated(sd, n) ==
    IF n = 0 THEN <<>>
    ELSE LET season_ratings == SeasonRated(sd[n])
         IN IF season_ratings # <<>>
            THEN Append(CountingUnrated(sd, n - 1),
                        [season_num |-> sd[n].season_num,
                         average |-> [num |-> SumRatings(season_ratings),
                                      den |-> Len(season_ratings)],
                         episode_count |-> Len(sd[n].episodes)])
            ELSE CountingUnrated(sd, n - 1)

\* season_averages after the first n seasons; sum / len is kept as a fraction
RECURSIVE SeasonAverages(_, _)
SeasonAverages(sd, n) ==
    IF n = 0 THEN <<>>
    ELSE LET season_ratings == SeasonRated(sd[n])
         IN IF season_ratings # <<>>
            THEN Append(SeasonAverages(sd, n - 1),
                        [season_num |-> sd[n].season_num,
                         average |-> [num |-> SumRatings(season_ratings),
                                      den |-> Len(season_ratings)],
                         episode_count |-> Len(season_ratings)])
            ELSE SeasonAverages(sd, n - 1)

\* min(all_episodes, key=rating) and max(...): the first of the extremes
MinEpisode(all) ==
    all[CHOOSE i \in 1..Len(all) :
            /\ \A j \in 1..Len(all) : all[i].rating <= all[j].rating
            /\ \A j \in 1..(i - 1) : all[j].rating # all[i].rating]

MaxEpisode(all) ==
    all[CHOOSE i \in 1..Len(all) :
            /\ \A j \in 1..Len(all) : all[i].rating >= all[j].rating
            /\ \A j \in 1..(i - 1) : all[j].rating # all[i].rating]

\* a.average < b.average for fractions with positive denominators
AvgLess(a, b) == a.average.num * b.average.den < b.average.num * a.average.den

BestSeason(avgs) ==
    avgs[CHOOSE i \in 1..Len(avgs) :
            /\ \A j \in 1..Len(avgs) : ~AvgLess(avgs[i], avgs[j])
            /\ \A j \in 1..(i - 1) : AvgLess(avgs[j], avgs[i])]

WorstSeason(avgs) ==
    avgs[CHOOSE i \in 1..Len(avgs) :
            /\ \A j \in 1..Len(avgs) : ~AvgLess(avgs[j], avgs[i])
            /\ \A j \in 1..(i - 1) : AvgLess(avgs[i], avgs[j])]

\* round(sum / len, 2) in hundredths, for ratings in tenths: n / d rounded to
\* the nearest integer, a half to the even one
RoundHalfEven(n, d) ==
    LET q == n \div d
        r == n - q * d
    IN IF 2 * r > d THEN q + 1
       ELSE IF 2 * r = d THEN q + (q % 2)
       ELSE q

\* the summary built from all_episodes and season_averages
Summary(all_episodes, season_averages) ==
       IF all_episodes = <<>>
       THEN [min_episode |-> None,
             max_episode |-> None,
             overall_average |-> None,
             season_averages |-> <<>>,
             best_season |-> None,
             worst_season |-> None,
             total_episodes |-> 0]
       ELSE [min_episode |-> MinEpisode(all_episodes),
             max_episode |-> MaxEpisode(all_episodes),
             overall_average |->
                 [k |-> "float",
                  v |-> RoundHalfEven(10 * SumRatings(all_episodes),
                                      Len(all_episodes))],
             season_averages |-> season_averages,
             best_season |-> IF season_averages # <<>>
                             THEN BestSeason(season_averages) ELSE None,
             worst_season |-> IF season_averages # <<>>
                              THEN WorstSeason(season_averages) ELSE None,
             total_episodes |-> Len(all_episodes)]

\* mutant: total_episodes counts every episode, rated or not
RECURSIVE EpisodesIn(_, _)
EpisodesIn(sd, n) ==
    IF n = 0 THEN 0 ELSE EpisodesIn(sd, n - 1) + Len(sd[n].episodes)

CountingEveryEpisode(sd) ==
    [Summary(AllEpisodes(sd, Len(sd)), SeasonAverages(sd, Len(sd)))
        EXCEPT !.total_episodes = EpisodesIn(sd, Len(sd))]

calculate_analytics(sd) ==
    Summary(AllEpisodes(sd, Len(sd)), SeasonAverages(sd, Len(sd)))

\* max(len(s["episodes"]) for s in seasons_data) if seasons_data else 0
MaxEpisodeCount(sd) ==
    IF sd = <<>> THEN 0
    ELSE LET lens == {Len(sd[i].episodes) : i \in 1..Len(sd)}
         IN CHOOSE m \in lens : \A x \in lens : x <= m

----------------------------------------------------------------------------
(* The documents and inputs the checks draw from *)

SeqsUpTo(S, n) == UNION {[1..m -> S] : m \in 0..n}

Urls == SeqsUpTo(Chars, MaxUrlLen)

EmptyDict == [k |-> "dict", empty |-> TRUE]
Num(x) == [k |-> "num", v |-> x]
NumStr(x) == [k |-> "numstr", v |-> x]

\* show pages
ShowJsonLd(name, count) ==
    [k |-> "dict", empty |-> FALSE, name |-> name, numberOfSeasons |-> count]

ShowDoc(json_ld, hero, h1, ipc_image, hero_poster) ==
    [json_ld |-> json_ld, hero |-> hero, h1 |-> h1,
     ipc_image |-> ipc_image, hero_poster |-> hero_poster]

ShowDocs ==
    {ShowDoc(ShowJsonLd(PyStr("Show"), c), Absent, PyStr("H1"), PyStr("img"), Absent) :
        c \in {Absent} \cup {PyInt(i) : i \in 0..MaxSeasons}}
    \cup {ShowDoc(ShowJsonLd(Absent, Absent), PyStr("Hero"), PyStr("H1"), Absent, PyStr("poster")),
          ShowDoc(None, Absent, PyStr("H1"), Absent, Absent),
          ShowDoc(EmptyDict, Absent, Absent, Absent, Absent)}

\* episode-listing pages
CountValues == {PyInt(i) : i \in -1..MaxSeasons}

ListingJsonLd(series, count) ==
    [k |-> "dict", empty |-> FALSE, partOfSeries |-> series,
     numberOfSeasons |-> count]

ListingJsonLds ==
    {None, EmptyDict}
    \cup {ListingJsonLd(s, c) :
            s \in {Absent} \cup {[numberOfSeasons |-> x] : x \in {Absent} \cup CountValues},
            c \in {Absent} \cup CountValues}

\* an href whose season= is followed by digits, or by something else
Hrefs == {PyInt(i) : i \in 0..MaxSeasons} \cup {PyStr("season=all")}

ListingDocs ==
    {[json_ld |-> j, season_links |-> l] :
        j \in ListingJsonLds, l \in SeqsUpTo(Hrefs, MaxLinks)}

RunListingDocs ==
    {[json_ld |-> None, season_links |-> <<>>],
     [json_ld |-> None, season_links |-> <<PyInt(2), PyInt(1), PyInt(2)>>],
     [json_ld |-> ListingJsonLd(Absent, PyInt(MaxSeasons)), season_links |-> <<>>],
     [json_ld |-> ListingJsonLd(Absent, PyInt(0)), season_links |-> <<PyInt(1)>>]}

\* season pages: the JSON-LD block
EpData(n, name, agg) ==
    [episodeNumber |-> n, name |-> name, aggregateRating |-> agg]

Agg(rating_val) == [k |-> "dict", empty |-> FALSE, ratingValue |-> rating_val]

EpNumValues == {Absent, None, PyStr("x")} \cup {PyInt(n) : n \in 0..MaxEpisodes}

RatingValues ==
    {Absent, None, Num(85), Num(110), Num(-10), NumStr(70), PyStr("N/A"),
     [k |-> "list"]}

AggValues == {Absent, None, EmptyDict} \cup {Agg(rv) : rv \in RatingValues}

EpDatas ==
    {EpData(n, nm, Agg(Num(85))) : n \in EpNumValues, nm \in {Absent, PyStr("Pilot")}}
    \cup {EpData(PyInt(1), nm, Agg(Num(85))) : nm \in {None, PyStr("")}}
    \cup {EpData(PyInt(2), PyStr("Pilot"), a) : a \in AggValues}

SeasonJsonLd(episode) == [k |-> "dict", empty |-> FALSE, episode |-> episode]

\* the blocks from which the JSON-LD path gets no episode
NoEpisodeJsonLds ==
    {None, EmptyDict, SeasonJsonLd(Absent), SeasonJsonLd(PyStr("none")),
     SeasonJsonLd([k |-> "list", v |-> <<>>])}

SeasonJsonLds ==
    NoEpisodeJsonLds
    \cup {SeasonJsonLd([k |-> "list", v |-> l]) :
            l \in SeqsUpTo(EpDatas, MaxEpisodes) \ {<<>>}}

\* season pages: the markup
Div(s, e, sep, rest) == [s |-> s, e |-> e, sep |-> sep, rest |-> rest]

Elem(text) == [k |-> "elem", text |-> text]

Junk == [k |-> "junk"]

Item(title_links, title_div, rating_elems) ==
    [title_links |-> title_links, title_div |-> title_div,
     rating_elems |-> rating_elems]

TitleLinkChoices ==
    {<<Absent, Absent, Absent, Absent>>,
     <<PyStr("Pilot"), Absent, Absent, Absent>>,
     <<Absent, Absent, Absent, PyStr("Link")>>,
     <<PyStr(""), Absent, PyStr("Strong"), Absent>>,
     <<Absent, PyStr("Name"), PyStr("Strong"), Absent>>}

TitleDivChoices ==
    {Absent, Div(0, 0, FALSE, ""), Div(0, 0, FALSE, "Title"),
     Div(1, 1, TRUE, ""), Div(0, 0, TRUE, "Title")}
    \cup {Div(1, e, TRUE, "Title") : e \in 1..MaxItems}
    \cup {Div(0, e, FALSE, "Title") : e \in 1..MaxItems}

RatingElemChoices ==
    {<<Absent, Absent, Absent, Absent>>,
     <<Elem(<<Num(85)>>), Absent, Absent, Absent>>,
     <<Absent, Elem(<<Junk, Num(70), Num(100)>>), Absent, Absent>>,
     <<Absent, Absent, Absent, Elem(<<Num(850)>>)>>,
     <<Absent, Absent, Elem(<<Junk>>), Elem(<<Num(85)>>)>>}

Items ==
    {Item(tl, td, <<Elem(<<Num(85)>>), Absent, Absent, Absent>>) :
        tl \in TitleLinkChoices, td \in {Absent, Div(1, 1, TRUE, "Title")}}
    \cup {Item(<<Absent, Absent, Absent, Absent>>, td,
               <<Elem(<<Num(85)>>), Absent, Absent, Absent>>) :
            td \in TitleDivChoices}
    \cup {Item(<<PyStr("Pilot"), Absent, Absent, Absent>>, Absent, r) :
            r \in RatingElemChoices}

SeasonDoc(json_ld, articles, list_items, container_divs) ==
    [json_ld |-> json_ld, articles |-> articles, list_items |-> list_items,
     container_divs |-> container_divs]

OneItem == <<Item(<<PyStr("Pilot"), Absent, Absent, Absent>>, Absent,
                  <<Absent, Absent, Absent, Absent>>)>>

\* pages with a JSON-LD block, without and with an episode container
JsonLdPages ==
    {SeasonDoc(j, m, <<>>, <<>>) : j \in SeasonJsonLds, m \in {<<>>, OneItem}}

\* pages whose episodes are in article.episode-item-wrapper containers only
MarkupPages ==
    {SeasonDoc(j, m, <<>>, <<>>) :
        j \in {None, SeasonJsonLd([k |-> "list", v |-> <<>>])},
        m \in SeqsUpTo(Items, MaxItems) \ {<<>>}}

\* pages whose containers match the second or the third selector only
OtherSelectorPages ==
    {SeasonDoc(j, <<>>, m, n) :
        j \in NoEpisodeJsonLds \ {None}, m \in SeqsUpTo(Items, 1),
        n \in {<<>>, OneItem}}

RunSeasonDocs ==
    {SeasonDoc(SeasonJsonLd([k |-> "list", v |->
                    <<EpData(PyInt(2), PyStr("Pilot"), Agg(Num(85))),
                      EpData(Absent, Absent, Absent)>>]), <<>>, <<>>, <<>>),
     SeasonDoc(SeasonJsonLd([k |-> "list", v |->
                    <<EpData(PyStr("x"), Absent, Absent)>>]), <<>>, <<>>, <<>>),
     SeasonDoc(None, OneItem, <<>>, <<>>),
     SeasonDoc(None, <<>>, <<>>, <<>>)}

\* the season lists given to calculate_analytics
Ratings == {None, [k |-> "float", v |-> 70], [k |-> "float", v |-> 85]}

EpisodeLists ==
    {[i \in 1..Len(rs) |->
        [episode_num |-> i, title |-> PyStr("Episode " \o ToString(i)),
         rating |-> rs[i]]] : rs \in SeqsUpTo(Ratings, MaxRated)}

SeasonsDatas ==
    {[i \in 1..Len(es) |-> [season_num |-> i, episodes |-> es[i]]] :
        es \in SeqsUpTo(EpisodeLists, MaxSeasons)}

----------------------------------------------------------------------------
(* main and scrape_show: one action per step between two fetches.  A fetch  *)
(* either raises (raise_for_status) or returns a document.                 *)

Fetch(page, season, ok) == [page |-> page, season |-> season, ok |-> ok]

\* imdb_id = get_imdb_id(url); the ValueError ends the run
ResolveId ==
    /\ pc = "main"
    /\ imdb_id' = get_imdb_id(url)
    /\ pc' = IF get_imdb_id(url) = None THEN "failed" ELSE "show_info"
    /\ UNCHANGED <<url, show_info, season_nums, seasons_data, soup, episodes,
                   tier, analytics, data, artifact, fetches>>

\* show_info = get_show_info(imdb_id)
GetShowInfo ==
    /\ pc = "show_info"
    /\ \/ /\ fetches' = Append(fetches, Fetch("show", 0, FALSE))
          /\ pc' = "failed"
          /\ UNCHANGED show_info
       \/ \E doc \in ShowDocs :
            /\ fetches' = Append(fetches, Fetch("show", 0, TRUE))
            /\ show_info' = get_show_info(doc)
            /\ pc' = "seasons"
    /\ UNCHANGED <<url, imdb_id, season_nums, seasons_data, soup, episodes,
                   tier, analytics, data, artifact>>

\* season_nums = get_seasons(imdb_id, show_info.get("number_of_seasons"))
GetSeasons(Docs) ==
    /\ pc = "seasons"
    /\ IF KnownCountUsable(show_info.number_of_seasons)
       THEN /\ season_nums' = Range1(show_info.number_of_seasons.v)
            /\ pc' = "episodes"
            /\ UNCHANGED <<fetches, soup>>
       ELSE \/ /\ fetches' = Append(fetches, Fetch("listing", 0, FALSE))
               /\ pc' = "failed"
               /\ UNCHANGED <<season_nums, soup>>
            \/ \E doc \in Docs :
                 /\ fetches' = Append(fetches, Fetch("listing", 0, TRUE))
                 /\ soup' = doc
                 /\ season_nums' = SeasonsFromListing(doc)
                 /\ pc' = "episodes"
    /\ UNCHANGED <<url, imdb_id, show_info, seasons_data, episodes, tier,
                   analytics, data, artifact>>

\* mutant: a failed season fetch is skipped and the run goes on
SkippingFailedSeasons(Docs) ==
    /\ pc = "episodes"
    /\ Len(seasons_data) < Len(season_nums)
    /\ LET season_num == season_nums[Len(seasons_data) + 1]
       IN \/ /\ fetches' = Append(fetches, Fetch("season", season_num, FALSE))
             /\ seasons_data' = Append(seasons_data,
                                       [season_num |-> season_num,
                                        episodes |-> <<>>])
             /\ pc' = "episodes"
             /\ UNCHANGED <<soup, episodes, tier>>
          \/ \E doc \in Docs :
               LET r == get_episode_ratings(doc)
               IN /\ fetches' = Append(fetches, Fetch("season", season_num, TRUE))
                  /\ soup' = doc
                  /\ ~r.raised
                  /\ episodes' = r.episodes
                  /\ tier' = r.tier
                  /\ seasons_data' =
                        Append(seasons_data,
                               [season_num |-> season_num,
                                episodes |-> r.episodes])
                  /\ pc' = "episodes"
    /\ UNCHANGED <<url, imdb_id, show_info, season_nums, analytics, data,
                   artifact>>

\* one iteration of `for season_num in season_nums`
GetEpisodes(Docs) ==
    /\ pc = "episodes"
    /\ Len(seasons_data) < Len(season_nums)
    /\ LET season_num == season_nums[Len(seasons_data) + 1]
       IN \/ /\ fetches' = Append(fetches, Fetch("season", season_num, FALSE))
             /\ pc' = "failed"
             /\ UNCHANGED <<seasons_data, soup, episodes, tier>>
          \/ \E doc \in Docs :
               LET r == get_episode_ratings(doc)
               IN /\ fetches' = Append(fetches, Fetch("season", season_num, TRUE))
                  /\ soup' = doc
                  /\ IF r.raised
                     THEN /\ pc' = "failed"
                          /\ UNCHANGED <<seasons_data, episodes, tier>>
                     ELSE /\ episodes' = r.episodes
                          /\ tier' = r.tier
                          /\ seasons_data' =
                                Append(seasons_data,
                                       [season_num |-> season_num,
                                        episodes |-> r.episodes])
                          /\ pc' = "episodes"
    /\ UNCHANGED <<url, imdb_id, show_info, season_nums, analytics, data,
                   artifact>>

\* the end of scrape_show: the analytics and the returned bundle
CalculateAnalytics ==
    /\ pc = "episodes"
    /\ Len(seasons_data) = Len(season_nums)
    /\ analytics' = calculate_analytics(seasons_data)
    /\ data' = [name |-> show_info.name,
                poster_url |-> show_info.poster_url,
                imdb_id |-> imdb_id,
                seasons |-> seasons_data,
                analytics |-> calculate_analytics(seasons_data),
                max_episodes |-> MaxEpisodeCount(seasons_data)]
    /\ pc' = "scraped"
    /\ UNCHANGED <<url, imdb_id, show_info, season_nums, seasons_data, soup,
                   episodes, tier, artifact, fetches>>

\* main: generate_html(data, output_path)
GenerateHtml ==
    /\ pc = "scraped"
    /\ artifact' = TRUE
    /\ pc' = "done"
    /\ UNCHANGED <<url, imdb_id, show_info, season_nums, seasons_data, soup,
                   episodes, tier, analytics, data, fetches>>

----------------------------------------------------------------------------
(* The run of main on a reference string *)

Init ==
    /\ pc = "main"
    /\ url \in Urls
    /\ imdb_id = None
    /\ show_info = None
    /\ season_nums = <<>>
    /\ seasons_data = <<>>
    /\ soup = None
    /\ episodes = <<>>
    /\ tier = "none"
    /\ analytics = None
    /\ data = None
    /\ artifact = FALSE
    /\ fetches = <<>>

Next ==
    \/ ResolveId
    \/ GetShowInfo
    \/ GetSeasons(RunListingDocs)
    \/ GetEpisodes(RunSeasonDocs)
    \/ CalculateAnalytics
    \/ GenerateHtml

Spec == Init /\ [][Next]_vars

(* get_seasons on every known count and listing page *)

AfterShowInfo(count) ==
    /\ url = <<"t", "t", "7">>
    /\ imdb_id = get_imdb_id(url)
    /\ show_info = [name |-> PyStr("Show"), poster_url |-> None,
                    number_of_seasons |-> count]
    /\ soup = None
    /\ episodes = <<>>
    /\ tier = "none"
    /\ analytics = None
    /\ data = None
    /\ artifact = FALSE

InitSeasons ==
    /\ pc = "seasons"
    /\ \E count \in {None} \cup CountValues : AfterShowInfo(count)
    /\ season_nums = <<>>
    /\ seasons_data = <<>>
    /\ fetches = <<Fetch("show", 0, TRUE)>>

NextSeasons == GetSeasons(ListingDocs)

SpecSeasons == InitSeasons /\ [][NextSeasons]_vars

(* get_episode_ratings on every season page *)

InitEpisodes ==
    /\ pc = "episodes"
    /\ AfterShowInfo(PyInt(1))
    /\ season_nums = <<1>>
    /\ seasons_data = <<>>
    /\ fetches = <<Fetch("show", 0, TRUE)>>

NextEpisodes ==
    \/ GetEpisodes(JsonLdPages)
    \/ GetEpisodes(MarkupPages)
    \/ GetEpisodes(OtherSelectorPages)

SpecEpisodes == InitEpisodes /\ [][NextEpisodes]_vars

(* calculate_analytics on every list of seasons *)

InitAnalytics ==
    /\ pc = "episodes"
    /\ seasons_data \in SeasonsDatas
    /\ AfterShowInfo(PyInt(Len(seasons_data)))
    /\ season_nums = Range1(Len(seasons_data))
    /\ fetches = <<Fetch("show", 0, TRUE)>>
                 \o (IF seasons_data = <<>>
                     THEN <<Fetch("listing", 0, TRUE)>> ELSE <<>>)
                 \o [i \in 1..Len(seasons_data) |-> Fetch("season", i, TRUE)]

NextAnalytics == CalculateAnalytics

SpecAnalytics == InitAnalytics /\ [][NextAnalytics]_vars

----------------------------------------------------------------------------
(* The properties *)

\* the last get_episode_ratings call returned a list
Extracted == pc = "episodes" /\ seasons_data # <<>>

\* the number of entries of the document's JSON-LD episode list
PayloadCount ==
    IF soup.json_ld.k = "dict" /\ ~soup.json_ld.empty
       /\ soup.json_ld.episode.k = "list"
    THEN Len(soup.json_ld.episode.v) ELSE 0

\* C1: per season document, a JSON-LD episode list with at least one entry
\* means the list returned comes from the JSON-LD path alone, with one record
\* per entry; the CSS fallback produced the list only when the JSON-LD path
\* had no entry.
C1_FallbackOnlyWhenPrimaryEmpty ==
    Extracted =>
        /\ PayloadCount > 0 =>
            /\ tier = "json_ld"
            /\ Len(episodes) = PayloadCount
            /\ \A i \in 1..Len(episodes) :
                 \E j \in 1..PayloadCount :
                    \/ soup.json_ld.episode.v[j].name = Absent
                    \/ soup.json_ld.episode.v[j].name = episodes[i].title
        /\ tier = "css_fallback" => PayloadCount = 0

\* a document with both a JSON-LD episode and an episode container, read by
\* the JSON-LD path
C1_Witness ==
    /\ Extracted
    /\ PayloadCount > 0
    /\ soup.articles # <<>>
    /\ tier = "json_ld"

\* C7 as claimed: every rating returned is absent or within [0, 10]
C7_RatingInRange ==
    Extracted =>
        \A i \in 1..Len(episodes) :
            \/ episodes[i].rating = None
            \/ (0 <= episodes[i].rating.v /\ episodes[i].rating.v <= 100)

\* C8 as claimed: every title returned is a non-empty string
C8_TitleNonEmpty ==
    Extracted =>
        \A i \in 1..Len(episodes) :
            /\ episodes[i].title.k = "str"
            /\ episodes[i].title.v # ""

Ascending(eps) ==
    \A i \in 1..Len(eps) : \A j \in i..Len(eps) :
        eps[i].episode_num <= eps[j].episode_num

\* C10 as claimed: the list returned is ascending by episode number on both
\* paths
C10_AlwaysAscending == Extracted => Ascending(episodes)

\* C10 amended: the list of the JSON-LD path is ascending by episode number;
\* the list of the CSS fallback is in document order, the idx-th record
\* numbered by the idx-th container's "E<digits>" or else idx.
C10_JsonLdAscending ==
    Extracted =>
        /\ tier = "json_ld" => Ascending(episodes)
        /\ tier = "css_fallback" =>
            LET items == IF soup.articles # <<>> THEN soup.articles
                         ELSE IF soup.list_items # <<>> THEN soup.list_items
                         ELSE soup.container_divs
            IN /\ Len(episodes) = Len(items)
               /\ \A idx \in 1..Len(items) :
                    episodes[idx].episode_num =
                        IF items[idx].title_div # Absent
                           /\ items[idx].title_div.e > 0
                        THEN items[idx].title_div.e ELSE idx

\* a JSON-LD list whose entries come numbered 2 then 1, returned as 1 then 2
C10_Witness ==
    /\ Extracted
    /\ tier = "json_ld"
    /\ PayloadCount = 2
    /\ soup.json_ld.episode.v[1].episodeNumber = PyInt(2)
    /\ soup.json_ld.episode.v[2].episodeNumber = PyInt(1)
    /\ episodes[1].episode_num = 1
    /\ episodes[2].episode_num = 2

\* get_seasons returned
Enumerated == pc = "episodes" /\ seasons_data = <<>>

ListingFetched == \E i \in 1..Len(fetches) : fetches[i].page = "listing"

\* the season counts the listing page's JSON-LD carries, directly or under
\* partOfSeries
ListingCounts ==
    IF soup.json_ld.k = "dict" /\ ~soup.json_ld.empty
    THEN (IF soup.json_ld.numberOfSeasons # Absent
          THEN {soup.json_ld.numberOfSeasons.v} ELSE {})
         \cup (IF soup.json_ld.partOfSeries # Absent
                  /\ soup.json_ld.partOfSeries.numberOfSeasons # Absent
               THEN {soup.json_ld.partOfSeries.numberOfSeasons.v} ELSE {})
    ELSE {}

\* the season numbers the listing page's links name
LinkNumbers ==
    {soup.season_links[i].v :
        i \in {j \in 1..Len(soup.season_links) : soup.season_links[j].k = "int"}}

\* C2: a positive known count k gives exactly 1..k without the listing page
\* being fetched; otherwise the listing page is fetched and the first of its
\* tiers that succeeds decides: a JSON-LD season count n gives 1..n, else the
\* linked season numbers, else the single season 1.
C2_KnownCountDecides ==
    Enumerated =>
        LET known == show_info.number_of_seasons
        IN IF known.k = "int" /\ known.v > 0
           THEN /\ season_nums = [i \in 1..known.v |-> i]
                /\ ~ListingFetched
           ELSE /\ ListingFetched
                /\ IF ListingCounts # {}
                   THEN \E n \in ListingCounts : season_nums = [i \in 1..n |-> i]
                   ELSE IF LinkNumbers # {}
                        THEN /\ {season_nums[i] : i \in 1..Len(season_nums)}
                                    = LinkNumbers
                             /\ \A i \in 1..Len(season_nums) :
                                  \A j \in (i + 1)..Len(season_nums) :
                                     season_nums[i] < season_nums[j]
                        ELSE season_nums = <<1>>

\* the known count 2 gives <<1, 2>> with the show page the only fetch
C2_Witness ==
    /\ Enumerated
    /\ show_info.number_of_seasons = PyInt(2)
    /\ season_nums = <<1, 2>>
    /\ fetches = <<Fetch("show", 0, TRUE)>>

\* C3 as claimed: the list get_seasons returns is non-empty, strictly
\* ascending and holds positive integers only
C3_SeasonListWellFormed ==
    Enumerated =>
        /\ season_nums # <<>>
        /\ \A i \in 1..Len(season_nums) : season_nums[i] > 0
        /\ \A i \in 1..Len(season_nums) : \A j \in (i + 1)..Len(season_nums) :
              season_nums[i] < season_nums[j]

\* calculate_analytics returned
Computed == pc = "scraped"

\* the rated episodes of the i-th input season
RatedCount(i) ==
    Cardinality({j \in 1..Len(seasons_data[i].episodes) :
                    seasons_data[i].episodes[j].rating # None})

\* the input seasons with at least one rated episode
RatedSeasons == {i \in 1..Len(seasons_data) : RatedCount(i) > 0}

\* the k-th of them, in input order
KthRated(k) ==
    CHOOSE i \in RatedSeasons : Cardinality({j \in RatedSeasons : j <= i}) = k

RECURSIVE SumOver(_, _)
SumOver(S, n) == IF n = 0 THEN 0 ELSE SumOver(S, n - 1) + S[n].episode_count

\* C4: total_episodes = 0 exactly when min_episode, max_episode,
\* overall_average, best_season and worst_season are all None and
\* season_averages is empty; with total_episodes > 0 none of them is None and
\* season_averages is non-empty.
C4_AllOrNothing ==
    Computed =>
        IF analytics.total_episodes = 0
        THEN /\ analytics.min_episode = None
             /\ analytics.max_episode = None
             /\ analytics.overall_average = None
             /\ analytics.best_season = None
             /\ analytics.worst_season = None
             /\ analytics.season_averages = <<>>
        ELSE /\ analytics.total_episodes > 0
             /\ analytics.min_episode # None
             /\ analytics.max_episode # None
             /\ analytics.overall_average # None
             /\ analytics.best_season # None
             /\ analytics.worst_season # None
             /\ analytics.season_averages # <<>>

\* seasons with episodes, none of them rated: the all-absent summary
C4_Witness ==
    /\ Computed
    /\ analytics.total_episodes = 0
    /\ analytics.min_episode = None
    /\ \E i \in 1..Len(seasons_data) : seasons_data[i].episodes # <<>>

\* C5: season_averages has one entry per input season with a rated episode,
\* in input order, its episode_count the number of rated episodes of that
\* season; total_episodes is the number of rated episodes of all seasons, the
\* sum of the episode_count values.
C5_OnlyRatedCounted ==
    Computed =>
        /\ Len(analytics.season_averages) = Cardinality(RatedSeasons)
        /\ \A k \in 1..Len(analytics.season_averages) :
             /\ analytics.season_averages[k].season_num
                  = seasons_data[KthRated(k)].season_num
             /\ analytics.season_averages[k].episode_count
                  = RatedCount(KthRated(k))
        /\ analytics.total_episodes
             = SumOver(analytics.season_averages,
                       Len(analytics.season_averages))
        /\ analytics.total_episodes
             = SumOver([i \in 1..Len(seasons_data) |->
                           [episode_count |-> RatedCount(i)]],
                       Len(seasons_data))

\* a season without a rated episode is left out, and a season with a rated
\* and an unrated episode counts one
C5_Witness ==
    /\ Computed
    /\ Len(seasons_data) = 2
    /\ RatedCount(1) = 0
    /\ seasons_data[1].episodes # <<>>
    /\ RatedCount(2) = 1
    /\ Len(seasons_data[2].episodes) = 2
    /\ Len(analytics.season_averages) = 1
    /\ analytics.season_averages[1].season_num = 2

\* the run met a fatal error: no identifier, or a fetch that raised
NoIdentifier == pc # "main" /\ MatchStarts(url) = {}

FailedFetches == {i \in 1..Len(fetches) : ~fetches[i].ok}

\* C6: after a fatal error (no identifier in the reference string, or a fetch
\* of the show page, the listing page or a season page that raised) there is
\* no data bundle, no analytics and no artifact, and the failed fetch is the
\* last one issued; without identifier no fetch is issued at all.
C6_FatalErrorAborts ==
    /\ NoIdentifier \/ FailedFetches # {} =>
        /\ data = None
        /\ analytics = None
        /\ ~artifact
        /\ pc = "failed"
    /\ NoIdentifier => fetches = <<>>
    /\ \A i \in FailedFetches : i = Len(fetches)

\* the page of the second season failed after the first season was gathered
C6_Witness ==
    /\ pc = "failed"
    /\ Len(seasons_data) = 1
    /\ seasons_data[1].episodes # <<>>
    /\ Len(fetches) >= 3
    /\ ~fetches[Len(fetches)].ok
    /\ fetches[Len(fetches)].page = "season"
    /\ data = None

Completed == pc \in {"scraped", "done"}

SeasonFetches == [i \in 1..Len(season_nums) |-> Fetch("season", season_nums[i], TRUE)]

\* C9 as claimed: a completed run issued exactly the show page, the listing
\* page and one page per season, in this order
C9_NPlusTwoFetches ==
    Completed =>
        fetches = <<Fetch("show", 0, TRUE), Fetch("listing", 0, TRUE)>>
                  \o SeasonFetches

\* C9 amended: a completed run issued the show page, then the listing page
\* unless the show page gave a positive season count, then one page per
\* season in ascending season order, each once: N + 1 fetches with a known
\* count, N + 2 without.
C9_SequentialFetches ==
    Completed =>
        /\ fetches =
             <<Fetch("show", 0, TRUE)>>
             \o (IF show_info.number_of_seasons.k = "int"
                    /\ show_info.number_of_seasons.v > 0
                 THEN <<>> ELSE <<Fetch("listing", 0, TRUE)>>)
             \o SeasonFetches
        /\ \A i \in 1..Len(season_nums) : \A j \in (i + 1)..Len(season_nums) :
              season_nums[i] < season_nums[j]

\* a finished run on two seasons known from the show page: three fetches
C9_Witness ==
    /\ pc = "done"
    /\ Len(season_nums) = 2
    /\ Len(fetches) = 3

============================================================================
